---- MODULE Spec2Model ----
(***************************************************************************)
(* Conversion of a context-free grammar to Chomsky normal form:            *)
(* context_free_grammar.py (the ContextFreeGrammar class) and main.py      *)
(* (change_start_variable, remove_epsilon_rules, remove_unit_rules,        *)
(* convert_to_proper_form, main).                                          *)
(*                                                                         *)
(* A symbol is a Python str, modelled as the sequence of the code points    *)
(* of its characters (<<83, 48>> is 'S0'), so that the regular expression  *)
(* of add_rule, the str.isupper / str.islower tests and the f'U{i}' names   *)
(* are computed and not assumed.  A production is a sequence of symbols.  A dict is a       *)
(* sequence of [key, products] entries in insertion order, because the     *)
(* code iterates dicts and indexes list(rules.keys()).                     *)
(***************************************************************************)
EXTENDS Integers, Sequences, FiniteSets

VARIABLES
    variables,       \* ContextFreeGrammar.variables (a set of symbols)
    terminals,       \* ContextFreeGrammar.terminals (a set of symbols)
    rules,           \* ContextFreeGrammar.rules (an insertion-ordered dict)
    start_variable,  \* ContextFreeGrammar.start_variable
    raised,          \* "none", or the exception that left the running call
    pc,              \* the statement the program is at
    nullable,        \* remove_epsilon_rules: the worklist set
    visited,         \* remove_epsilon_rules: the processed variables
    unit_pairs,      \* remove_unit_rules: the snapshot of (variable, product)
    pair,            \* remove_unit_rules: the loop index into unit_pairs
    i,               \* convert_to_proper_form: the counter of the U names
    index,           \* convert_to_proper_form: the index into the rule dict
    call,            \* the arguments (lhs, rhs) of a direct add_rule call
    given            \* the rules and start variable the run began with

vars == <<variables, terminals, rules, start_variable, raised, pc, nullable,
          visited, unit_pairs, pair, i, index, call, given>>

-----------------------------------------------------------------------------
(* Characters and the str predicates the code uses.  A character is its    *)
(* Unicode code point, ord(c): 65 is 'A', 97 is 'a', 48 is '0', 10 is the  *)
(* newline, 949 is the Greek small letter epsilon.  The classes below are  *)
(* the ones CPython's Unicode database (14.0) gives; each is written as    *)
(* the set of its maximal runs <<first, last>> of code points.             *)

\* The code points of the runs.
Ranges(runs) == UNION {run[1]..run[2] : run \in runs}

\* [A-Z] in the pattern of line 76: the 26 ASCII capitals and nothing else.
AsciiUpperChars == 65..90

\* The characters str.isupper() counts as uppercase (property Uppercase).
UpperChars ==
    Ranges({<<65, 90>>, <<192, 214>>, <<216, 222>>, <<256, 256>>,
            <<258, 258>>, <<260, 260>>, <<262, 262>>, <<264, 264>>,
            <<266, 266>>, <<268, 268>>, <<270, 270>>, <<272, 272>>,
            <<274, 274>>, <<276, 276>>, <<278, 278>>, <<280, 280>>,
            <<282, 282>>, <<284, 284>>, <<286, 286>>, <<288, 288>>,
            <<290, 290>>, <<292, 292>>, <<294, 294>>, <<296, 296>>,
            <<298, 298>>, <<300, 300>>, <<302, 302>>, <<304, 304>>,
            <<306, 306>>, <<308, 308>>, <<310, 310>>, <<313, 313>>,
            <<315, 315>>, <<317, 317>>, <<319, 319>>, <<321, 321>>,
            <<323, 323>>, <<325, 325>>, <<327, 327>>, <<330, 330>>,
            <<332, 332>>, <<334, 334>>, <<336, 336>>, <<338, 338>>,
            <<340, 340>>, <<342, 342>>, <<344, 344>>, <<346, 346>>,
            <<348, 348>>, <<350, 350>>, <<352, 352>>, <<354, 354>>,
            <<356, 356>>, <<358, 358>>, <<360, 360>>, <<362, 362>>,
            <<364, 364>>, <<366, 366>>, <<368, 368>>, <<370, 370>>,
            <<372, 372>>, <<374, 374>>, <<376, 377>>, <<379, 379>>,
            <<381, 381>>, <<385, 386>>, <<388, 388>>, <<390, 391>>,
            <<393, 395>>, <<398, 401>>, <<403, 404>>, <<406, 408>>,
            <<412, 413>>, <<415, 416>>, <<418, 418>>, <<420, 420>>,
            <<422, 423>>, <<425, 425>>, <<428, 428>>, <<430, 431>>,
            <<433, 435>>, <<437, 437>>, <<439, 440>>, <<444, 444>>,
            <<452, 452>>, <<455, 455>>, <<458, 458>>, <<461, 461>>,
            <<463, 463>>, <<465, 465>>, <<467, 467>>, <<469, 469>>,
            <<471, 471>>, <<473, 473>>, <<475, 475>>, <<478, 478>>,
            <<480, 480>>, <<482, 482>>, <<484, 484>>, <<486, 486>>,
            <<488, 488>>, <<490, 490>>, <<492, 492>>, <<494, 494>>,
            <<497, 497>>, <<500, 500>>, <<502, 504>>, <<506, 506>>,
            <<508, 508>>, <<510, 510>>, <<512, 512>>, <<514, 514>>,
            <<516, 516>>, <<518, 518>>, <<520, 520>>, <<522, 522>>,
            <<524, 524>>, <<526, 526>>, <<528, 528>>, <<530, 530>>,
            <<532, 532>>, <<534, 534>>, <<536, 536>>, <<538, 538>>,
            <<540, 540>>, <<542, 542>>, <<544, 544>>, <<546, 546>>,
            <<548, 548>>, <<550, 550>>, <<552, 552>>, <<554, 554>>,
            <<556, 556>>, <<558, 558>>, <<560, 560>>, <<562, 562>>,
            <<570, 571>>, <<573, 574>>, <<577, 577>>, <<579, 582>>,
            <<584, 584>>, <<586, 586>>, <<588, 588>>, <<590, 590>>,
            <<880, 880>>, <<882, 882>>, <<886, 886>>, <<895, 895>>,
            <<902, 902>>, <<904, 906>>, <<908, 908>>, <<910, 911>>,
            <<913, 929>>, <<931, 939>>, <<975, 975>>, <<978, 980>>,
            <<984, 984>>, <<986, 986>>, <<988, 988>>, <<990, 990>>,
            <<992, 992>>, <<994, 994>>, <<996, 996>>, <<998, 998>>,
            <<1000, 1000>>, <<1002, 1002>>, <<1004, 1004>>, <<1006, 1006>>,
            <<1012, 1012>>, <<1015, 1015>>, <<1017, 1018>>, <<1021, 1071>>,
            <<1120, 1120>>, <<1122, 1122>>, <<1124, 1124>>, <<1126, 1126>>,
            <<1128, 1128>>, <<1130, 1130>>, <<1132, 1132>>, <<1134, 1134>>,
            <<1136, 1136>>, <<1138, 1138>>, <<1140, 1140>>, <<1142, 1142>>,
            <<1144, 1144>>, <<1146, 1146>>, <<1148, 1148>>, <<1150, 1150>>,
            <<1152, 1152>>, <<1162, 1162>>, <<1164, 1164>>, <<1166, 1166>>,
            <<1168, 1168>>, <<1170, 1170>>, <<1172, 1172>>, <<1174, 1174>>,
            <<1176, 1176>>, <<1178, 1178>>, <<1180, 1180>>, <<1182, 1182>>,
            <<1184, 1184>>, <<1186, 1186>>, <<1188, 1188>>, <<1190, 1190>>,
            <<1192, 1192>>, <<1194, 1194>>, <<1196, 1196>>, <<1198, 1198>>,
            <<1200, 1200>>, <<1202, 1202>>, <<1204, 1204>>, <<1206, 1206>>,
            <<1208, 1208>>, <<1210, 1210>>, <<1212, 1212>>, <<1214, 1214>>,
            <<1216, 1217>>, <<1219, 1219>>, <<1221, 1221>>, <<1223, 1223>>,
            <<1225, 1225>>, <<1227, 1227>>, <<1229, 1229>>, <<1232, 1232>>,
            <<1234, 1234>>, <<1236, 1236>>, <<1238, 1238>>, <<1240, 1240>>,
            <<1242, 1242>>, <<1244, 1244>>, <<1246, 1246>>, <<1248, 1248>>,
            <<1250, 1250>>, <<1252, 1252>>, <<1254, 1254>>, <<1256, 1256>>,
            <<1258, 1258>>, <<1260, 1260>>, <<1262, 1262>>, <<1264, 1264>>,
            <<1266, 1266>>, <<1268, 1268>>, <<1270, 1270>>, <<1272, 1272>>,
            <<1274, 1274>>, <<1276, 1276>>, <<1278, 1278>>, <<1280, 1280>>,
            <<1282, 1282>>, <<1284, 1284>>, <<1286, 1286>>, <<1288, 1288>>,
            <<1290, 1290>>, <<1292, 1292>>, <<1294, 1294>>, <<1296, 1296>>,
            <<1298, 1298>>, <<1300, 1300>>, <<1302, 1302>>, <<1304, 1304>>,
            <<1306, 1306>>, <<1308, 1308>>, <<1310, 1310>>, <<1312, 1312>>,
            <<1314, 1314>>, <<1316, 1316>>, <<1318, 1318>>, <<1320, 1320>>,
            <<1322, 1322>>, <<1324, 1324>>, <<1326, 1326>>, <<1329, 1366>>,
            <<4256, 4293>>, <<4295, 4295>>, <<4301, 4301>>, <<5024, 5109>>,
            <<7312, 7354>>, <<7357, 7359>>, <<7680, 7680>>, <<7682, 7682>>,
            <<7684, 7684>>, <<7686, 7686>>, <<7688, 7688>>, <<7690, 7690>>,
            <<7692, 7692>>, <<7694, 7694>>, <<7696, 7696>>, <<7698, 7698>>,
            <<7700, 7700>>, <<7702, 7702>>, <<7704, 7704>>, <<7706, 7706>>,
            <<7708, 7708>>, <<7710, 7710>>, <<7712, 7712>>, <<7714, 7714>>,
            <<7716, 7716>>, <<7718, 7718>>, <<7720, 7720>>, <<7722, 7722>>,
            <<7724, 7724>>, <<7726, 7726>>, <<7728, 7728>>, <<7730, 7730>>,
            <<7732, 7732>>, <<7734, 7734>>, <<7736, 7736>>, <<7738, 7738>>,
            <<7740, 7740>>, <<7742, 7742>>, <<7744, 7744>>, <<7746, 7746>>,
            <<7748, 7748>>, <<7750, 7750>>, <<7752, 7752>>, <<7754, 7754>>,
            <<7756, 7756>>, <<7758, 7758>>, <<7760, 7760>>, <<7762, 7762>>,
            <<7764, 7764>>, <<7766, 7766>>, <<7768, 7768>>, <<7770, 7770>>,
            <<7772, 7772>>, <<7774, 7774>>, <<7776, 7776>>, <<7778, 7778>>,
            <<7780, 7780>>, <<7782, 7782>>, <<7784, 7784>>, <<7786, 7786>>,
            <<7788, 7788>>, <<7790, 7790>>, <<7792, 7792>>, <<7794, 7794>>,
            <<7796, 7796>>, <<7798, 7798>>, <<7800, 7800>>, <<7802, 7802>>,
            <<7804, 7804>>, <<7806, 7806>>, <<7808, 7808>>, <<7810, 7810>>,
            <<7812, 7812>>, <<7814, 7814>>, <<7816, 7816>>, <<7818, 7818>>,
            <<7820, 7820>>, <<7822, 7822>>, <<7824, 7824>>, <<7826, 7826>>,
            <<7828, 7828>>, <<7838, 7838>>, <<7840, 7840>>, <<7842, 7842>>,
            <<7844, 7844>>, <<7846, 7846>>, <<7848, 7848>>, <<7850, 7850>>,
            <<7852, 7852>>, <<7854, 7854>>, <<7856, 7856>>, <<7858, 7858>>,
            <<7860, 7860>>, <<7862, 7862>>, <<7864, 7864>>, <<7866, 7866>>,
            <<7868, 7868>>, <<7870, 7870>>, <<7872, 7872>>, <<7874, 7874>>,
            <<7876, 7876>>, <<7878, 7878>>, <<7880, 7880>>, <<7882, 7882>>,
            <<7884, 7884>>, <<7886, 7886>>, <<7888, 7888>>, <<7890, 7890>>,
            <<7892, 7892>>, <<7894, 7894>>, <<7896, 7896>>, <<7898, 7898>>,
            <<7900, 7900>>, <<7902, 7902>>, <<7904, 7904>>, <<7906, 7906>>,
            <<7908, 7908>>, <<7910, 7910>>, <<7912, 7912>>, <<7914, 7914>>,
            <<7916, 7916>>, <<7918, 7918>>, <<7920, 7920>>, <<7922, 7922>>,
            <<7924, 7924>>, <<7926, 7926>>, <<7928, 7928>>, <<7930, 7930>>,
            <<7932, 7932>>, <<7934, 7934>>, <<7944, 7951>>, <<7960, 7965>>,
            <<7976, 7983>>, <<7992, 7999>>, <<8008, 8013>>, <<8025, 8025>>,
            <<8027, 8027>>, <<8029, 8029>>, <<8031, 8031>>, <<8040, 8047>>,
            <<8120, 8123>>, <<8136, 8139>>, <<8152, 8155>>, <<8168, 8172>>,
            <<8184, 8187>>, <<8450, 8450>>, <<8455, 8455>>, <<8459, 8461>>,
            <<8464, 8466>>, <<8469, 8469>>, <<8473, 8477>>, <<8484, 8484>>,
            <<8486, 8486>>, <<8488, 8488>>, <<8490, 8493>>, <<8496, 8499>>,
            <<8510, 8511>>, <<8517, 8517>>, <<8544, 8559>>, <<8579, 8579>>,
            <<9398, 9423>>, <<11264, 11311>>, <<11360, 11360>>,
            <<11362, 11364>>, <<11367, 11367>>, <<11369, 11369>>,
            <<11371, 11371>>, <<11373, 11376>>, <<11378, 11378>>,
            <<11381, 11381>>, <<11390, 11392>>, <<11394, 11394>>,
            <<11396, 11396>>, <<11398, 11398>>, <<11400, 11400>>,
            <<11402, 11402>>, <<11404, 11404>>, <<11406, 11406>>,
            <<11408, 11408>>, <<11410, 11410>>, <<11412, 11412>>,
            <<11414, 11414>>, <<11416, 11416>>, <<11418, 11418>>,
            <<11420, 11420>>, <<11422, 11422>>, <<11424, 11424>>,
            <<11426, 11426>>, <<11428, 11428>>, <<11430, 11430>>,
            <<11432, 11432>>, <<11434, 11434>>, <<11436, 11436>>,
            <<11438, 11438>>, <<11440, 11440>>, <<11442, 11442>>,
            <<11444, 11444>>, <<11446, 11446>>, <<11448, 11448>>,
            <<11450, 11450>>, <<11452, 11452>>, <<11454, 11454>>,
            <<11456, 11456>>, <<11458, 11458>>, <<11460, 11460>>,
            <<11462, 11462>>, <<11464, 11464>>, <<11466, 11466>>,
            <<11468, 11468>>, <<11470, 11470>>, <<11472, 11472>>,
            <<11474, 11474>>, <<11476, 11476>>, <<11478, 11478>>,
            <<11480, 11480>>, <<11482, 11482>>, <<11484, 11484>>,
            <<11486, 11486>>, <<11488, 11488>>, <<11490, 11490>>,
            <<11499, 11499>>, <<11501, 11501>>, <<11506, 11506>>,
            <<42560, 42560>>, <<42562, 42562>>, <<42564, 42564>>,
            <<42566, 42566>>, <<42568, 42568>>, <<42570, 42570>>,
            <<42572, 42572>>, <<42574, 42574>>, <<42576, 42576>>,
            <<42578, 42578>>, <<42580, 42580>>, <<42582, 42582>>,
            <<42584, 42584>>, <<42586, 42586>>, <<42588, 42588>>,
            <<42590, 42590>>, <<42592, 42592>>, <<42594, 42594>>,
            <<42596, 42596>>, <<42598, 42598>>, <<42600, 42600>>,
            <<42602, 42602>>, <<42604, 42604>>, <<42624, 42624>>,
            <<42626, 42626>>, <<42628, 42628>>, <<42630, 42630>>,
            <<42632, 42632>>, <<42634, 42634>>, <<42636, 42636>>,
            <<42638, 42638>>, <<42640, 42640>>, <<42642, 42642>>,
            <<42644, 42644>>, <<42646, 42646>>, <<42648, 42648>>,
            <<42650, 42650>>, <<42786, 42786>>, <<42788, 42788>>,
            <<42790, 42790>>, <<42792, 42792>>, <<42794, 42794>>,
            <<42796, 42796>>, <<42798, 42798>>, <<42802, 42802>>,
            <<42804, 42804>>, <<42806, 42806>>, <<42808, 42808>>,
            <<42810, 42810>>, <<42812, 42812>>, <<42814, 42814>>,
            <<42816, 42816>>, <<42818, 42818>>, <<42820, 42820>>,
            <<42822, 42822>>, <<42824, 42824>>, <<42826, 42826>>,
            <<42828, 42828>>, <<42830, 42830>>, <<42832, 42832>>,
            <<42834, 42834>>, <<42836, 42836>>, <<42838, 42838>>,
            <<42840, 42840>>, <<42842, 42842>>, <<42844, 42844>>,
            <<42846, 42846>>, <<42848, 42848>>, <<42850, 42850>>,
            <<42852, 42852>>, <<42854, 42854>>, <<42856, 42856>>,
            <<42858, 42858>>, <<42860, 42860>>, <<42862, 42862>>,
            <<42873, 42873>>, <<42875, 42875>>, <<42877, 42878>>,
            <<42880, 42880>>, <<42882, 42882>>, <<42884, 42884>>,
            <<42886, 42886>>, <<42891, 42891>>, <<42893, 42893>>,
            <<42896, 42896>>, <<42898, 42898>>, <<42902, 42902>>,
            <<42904, 42904>>, <<42906, 42906>>, <<42908, 42908>>,
            <<42910, 42910>>, <<42912, 42912>>, <<42914, 42914>>,
            <<42916, 42916>>, <<42918, 42918>>, <<42920, 42920>>,
            <<42922, 42926>>, <<42928, 42932>>, <<42934, 42934>>,
            <<42936, 42936>>, <<42938, 42938>>, <<42940, 42940>>,
            <<42942, 42942>>, <<42944, 42944>>, <<42946, 42946>>,
            <<42948, 42951>>, <<42953, 42953>>, <<42960, 42960>>,
            <<42966, 42966>>, <<42968, 42968>>, <<42997, 42997>>,
            <<65313, 65338>>, <<66560, 66599>>, <<66736, 66771>>,
            <<66928, 66938>>, <<66940, 66954>>, <<66956, 66962>>,
            <<66964, 66965>>, <<68736, 68786>>, <<71840, 71871>>,
            <<93760, 93791>>, <<119808, 119833>>, <<119860, 119885>>,
            <<119912, 119937>>, <<119964, 119964>>, <<119966, 119967>>,
            <<119970, 119970>>, <<119973, 119974>>, <<119977, 119980>>,
            <<119982, 119989>>, <<120016, 120041>>, <<120068, 120069>>,
            <<120071, 120074>>, <<120077, 120084>>, <<120086, 120092>>,
            <<120120, 120121>>, <<120123, 120126>>, <<120128, 120132>>,
            <<120134, 120134>>, <<120138, 120144>>, <<120172, 120197>>,
            <<120224, 120249>>, <<120276, 120301>>, <<120328, 120353>>,
            <<120380, 120405>>, <<120432, 120457>>, <<120488, 120512>>,
            <<120546, 120570>>, <<120604, 120628>>, <<120662, 120686>>,
            <<120720, 120744>>, <<120778, 120778>>, <<125184, 125217>>,
            <<127280, 127305>>, <<127312, 127337>>, <<127344, 127369>>})

\* The characters str.islower() counts as lowercase (property Lowercase);
\* 949, the epsilon of the grammars, is one of them.
LowerChars ==
    Ranges({<<97, 122>>, <<170, 170>>, <<181, 181>>, <<186, 186>>,
            <<223, 246>>, <<248, 255>>, <<257, 257>>, <<259, 259>>,
            <<261, 261>>, <<263, 263>>, <<265, 265>>, <<267, 267>>,
            <<269, 269>>, <<271, 271>>, <<273, 273>>, <<275, 275>>,
            <<277, 277>>, <<279, 279>>, <<281, 281>>, <<283, 283>>,
            <<285, 285>>, <<287, 287>>, <<289, 289>>, <<291, 291>>,
            <<293, 293>>, <<295, 295>>, <<297, 297>>, <<299, 299>>,
            <<301, 301>>, <<303, 303>>, <<305, 305>>, <<307, 307>>,
            <<309, 309>>, <<311, 312>>, <<314, 314>>, <<316, 316>>,
            <<318, 318>>, <<320, 320>>, <<322, 322>>, <<324, 324>>,
            <<326, 326>>, <<328, 329>>, <<331, 331>>, <<333, 333>>,
            <<335, 335>>, <<337, 337>>, <<339, 339>>, <<341, 341>>,
            <<343, 343>>, <<345, 345>>, <<347, 347>>, <<349, 349>>,
            <<351, 351>>, <<353, 353>>, <<355, 355>>, <<357, 357>>,
            <<359, 359>>, <<361, 361>>, <<363, 363>>, <<365, 365>>,
            <<367, 367>>, <<369, 369>>, <<371, 371>>, <<373, 373>>,
            <<375, 375>>, <<378, 378>>, <<380, 380>>, <<382, 384>>,
            <<387, 387>>, <<389, 389>>, <<392, 392>>, <<396, 397>>,
            <<402, 402>>, <<405, 405>>, <<409, 411>>, <<414, 414>>,
            <<417, 417>>, <<419, 419>>, <<421, 421>>, <<424, 424>>,
            <<426, 427>>, <<429, 429>>, <<432, 432>>, <<436, 436>>,
            <<438, 438>>, <<441, 442>>, <<445, 447>>, <<454, 454>>,
            <<457, 457>>, <<460, 460>>, <<462, 462>>, <<464, 464>>,
            <<466, 466>>, <<468, 468>>, <<470, 470>>, <<472, 472>>,
            <<474, 474>>, <<476, 477>>, <<479, 479>>, <<481, 481>>,
            <<483, 483>>, <<485, 485>>, <<487, 487>>, <<489, 489>>,
            <<491, 491>>, <<493, 493>>, <<495, 496>>, <<499, 499>>,
            <<501, 501>>, <<505, 505>>, <<507, 507>>, <<509, 509>>,
            <<511, 511>>, <<513, 513>>, <<515, 515>>, <<517, 517>>,
            <<519, 519>>, <<521, 521>>, <<523, 523>>, <<525, 525>>,
            <<527, 527>>, <<529, 529>>, <<531, 531>>, <<533, 533>>,
            <<535, 535>>, <<537, 537>>, <<539, 539>>, <<541, 541>>,
            <<543, 543>>, <<545, 545>>, <<547, 547>>, <<549, 549>>,
            <<551, 551>>, <<553, 553>>, <<555, 555>>, <<557, 557>>,
            <<559, 559>>, <<561, 561>>, <<563, 569>>, <<572, 572>>,
            <<575, 576>>, <<578, 578>>, <<583, 583>>, <<585, 585>>,
            <<587, 587>>, <<589, 589>>, <<591, 659>>, <<661, 696>>,
            <<704, 705>>, <<736, 740>>, <<837, 837>>, <<881, 881>>,
            <<883, 883>>, <<887, 887>>, <<890, 893>>, <<912, 912>>,
            <<940, 974>>, <<976, 977>>, <<981, 983>>, <<985, 985>>,
            <<987, 987>>, <<989, 989>>, <<991, 991>>, <<993, 993>>,
            <<995, 995>>, <<997, 997>>, <<999, 999>>, <<1001, 1001>>,
            <<1003, 1003>>, <<1005, 1005>>, <<1007, 1011>>, <<1013, 1013>>,
            <<1016, 1016>>, <<1019, 1020>>, <<1072, 1119>>, <<1121, 1121>>,
            <<1123, 1123>>, <<1125, 1125>>, <<1127, 1127>>, <<1129, 1129>>,
            <<1131, 1131>>, <<1133, 1133>>, <<1135, 1135>>, <<1137, 1137>>,
            <<1139, 1139>>, <<1141, 1141>>, <<1143, 1143>>, <<1145, 1145>>,
            <<1147, 1147>>, <<1149, 1149>>, <<1151, 1151>>, <<1153, 1153>>,
            <<1163, 1163>>, <<1165, 1165>>, <<1167, 1167>>, <<1169, 1169>>,
            <<1171, 1171>>, <<1173, 1173>>, <<1175, 1175>>, <<1177, 1177>>,
            <<1179, 1179>>, <<1181, 1181>>, <<1183, 1183>>, <<1185, 1185>>,
            <<1187, 1187>>, <<1189, 1189>>, <<1191, 1191>>, <<1193, 1193>>,
            <<1195, 1195>>, <<1197, 1197>>, <<1199, 1199>>, <<1201, 1201>>,
            <<1203, 1203>>, <<1205, 1205>>, <<1207, 1207>>, <<1209, 1209>>,
            <<1211, 1211>>, <<1213, 1213>>, <<1215, 1215>>, <<1218, 1218>>,
            <<1220, 1220>>, <<1222, 1222>>, <<1224, 1224>>, <<1226, 1226>>,
            <<1228, 1228>>, <<1230, 1231>>, <<1233, 1233>>, <<1235, 1235>>,
            <<1237, 1237>>, <<1239, 1239>>, <<1241, 1241>>, <<1243, 1243>>,
            <<1245, 1245>>, <<1247, 1247>>, <<1249, 1249>>, <<1251, 1251>>,
            <<1253, 1253>>, <<1255, 1255>>, <<1257, 1257>>, <<1259, 1259>>,
            <<1261, 1261>>, <<1263, 1263>>, <<1265, 1265>>, <<1267, 1267>>,
            <<1269, 1269>>, <<1271, 1271>>, <<1273, 1273>>, <<1275, 1275>>,
            <<1277, 1277>>, <<1279, 1279>>, <<1281, 1281>>, <<1283, 1283>>,
            <<1285, 1285>>, <<1287, 1287>>, <<1289, 1289>>, <<1291, 1291>>,
            <<1293, 1293>>, <<1295, 1295>>, <<1297, 1297>>, <<1299, 1299>>,
            <<1301, 1301>>, <<1303, 1303>>, <<1305, 1305>>, <<1307, 1307>>,
            <<1309, 1309>>, <<1311, 1311>>, <<1313, 1313>>, <<1315, 1315>>,
            <<1317, 1317>>, <<1319, 1319>>, <<1321, 1321>>, <<1323, 1323>>,
            <<1325, 1325>>, <<1327, 1327>>, <<1376, 1416>>, <<4304, 4346>>,
            <<4349, 4351>>, <<5112, 5117>>, <<7296, 7304>>, <<7424, 7615>>,
            <<7681, 7681>>, <<7683, 7683>>, <<7685, 7685>>, <<7687, 7687>>,
            <<7689, 7689>>, <<7691, 7691>>, <<7693, 7693>>, <<7695, 7695>>,
            <<7697, 7697>>, <<7699, 7699>>, <<7701, 7701>>, <<7703, 7703>>,
            <<7705, 7705>>, <<7707, 7707>>, <<7709, 7709>>, <<7711, 7711>>,
            <<7713, 7713>>, <<7715, 7715>>, <<7717, 7717>>, <<7719, 7719>>,
            <<7721, 7721>>, <<7723, 7723>>, <<7725, 7725>>, <<7727, 7727>>,
            <<7729, 7729>>, <<7731, 7731>>, <<7733, 7733>>, <<7735, 7735>>,
            <<7737, 7737>>, <<7739, 7739>>, <<7741, 7741>>, <<7743, 7743>>,
            <<7745, 7745>>, <<7747, 7747>>, <<7749, 7749>>, <<7751, 7751>>,
            <<7753, 7753>>, <<7755, 7755>>, <<7757, 7757>>, <<7759, 7759>>,
            <<7761, 7761>>, <<7763, 7763>>, <<7765, 7765>>, <<7767, 7767>>,
            <<7769, 7769>>, <<7771, 7771>>, <<7773, 7773>>, <<7775, 7775>>,
            <<7777, 7777>>, <<7779, 7779>>, <<7781, 7781>>, <<7783, 7783>>,
            <<7785, 7785>>, <<7787, 7787>>, <<7789, 7789>>, <<7791, 7791>>,
            <<7793, 7793>>, <<7795, 7795>>, <<7797, 7797>>, <<7799, 7799>>,
            <<7801, 7801>>, <<7803, 7803>>, <<7805, 7805>>, <<7807, 7807>>,
            <<7809, 7809>>, <<7811, 7811>>, <<7813, 7813>>, <<7815, 7815>>,
            <<7817, 7817>>, <<7819, 7819>>, <<7821, 7821>>, <<7823, 7823>>,
            <<7825, 7825>>, <<7827, 7827>>, <<7829, 7837>>, <<7839, 7839>>,
            <<7841, 7841>>, <<7843, 7843>>, <<7845, 7845>>, <<7847, 7847>>,
            <<7849, 7849>>, <<7851, 7851>>, <<7853, 7853>>, <<7855, 7855>>,
            <<7857, 7857>>, <<7859, 7859>>, <<7861, 7861>>, <<7863, 7863>>,
            <<7865, 7865>>, <<7867, 7867>>, <<7869, 7869>>, <<7871, 7871>>,
            <<7873, 7873>>, <<7875, 7875>>, <<7877, 7877>>, <<7879, 7879>>,
            <<7881, 7881>>, <<7883, 7883>>, <<7885, 7885>>, <<7887, 7887>>,
            <<7889, 7889>>, <<7891, 7891>>, <<7893, 7893>>, <<7895, 7895>>,
            <<7897, 7897>>, <<7899, 7899>>, <<7901, 7901>>, <<7903, 7903>>,
            <<7905, 7905>>, <<7907, 7907>>, <<7909, 7909>>, <<7911, 7911>>,
            <<7913, 7913>>, <<7915, 7915>>, <<7917, 7917>>, <<7919, 7919>>,
            <<7921, 7921>>, <<7923, 7923>>, <<7925, 7925>>, <<7927, 7927>>,
            <<7929, 7929>>, <<7931, 7931>>, <<7933, 7933>>, <<7935, 7943>>,
            <<7952, 7957>>, <<7968, 7975>>, <<7984, 7991>>, <<8000, 8005>>,
            <<8016, 8023>>, <<8032, 8039>>, <<8048, 8061>>, <<8064, 8071>>,
            <<8080, 8087>>, <<8096, 8103>>, <<8112, 8116>>, <<8118, 8119>>,
            <<8126, 8126>>, <<8130, 8132>>, <<8134, 8135>>, <<8144, 8147>>,
            <<8150, 8151>>, <<8160, 8167>>, <<8178, 8180>>, <<8182, 8183>>,
            <<8305, 8305>>, <<8319, 8319>>, <<8336, 8348>>, <<8458, 8458>>,
            <<8462, 8463>>, <<8467, 8467>>, <<8495, 8495>>, <<8500, 8500>>,
            <<8505, 8505>>, <<8508, 8509>>, <<8518, 8521>>, <<8526, 8526>>,
            <<8560, 8575>>, <<8580, 8580>>, <<9424, 9449>>, <<11312, 11359>>,
            <<11361, 11361>>, <<11365, 11366>>, <<11368, 11368>>,
            <<11370, 11370>>, <<11372, 11372>>, <<11377, 11377>>,
            <<11379, 11380>>, <<11382, 11389>>, <<11393, 11393>>,
            <<11395, 11395>>, <<11397, 11397>>, <<11399, 11399>>,
            <<11401, 11401>>, <<11403, 11403>>, <<11405, 11405>>,
            <<11407, 11407>>, <<11409, 11409>>, <<11411, 11411>>,
            <<11413, 11413>>, <<11415, 11415>>, <<11417, 11417>>,
            <<11419, 11419>>, <<11421, 11421>>, <<11423, 11423>>,
            <<11425, 11425>>, <<11427, 11427>>, <<11429, 11429>>,
            <<11431, 11431>>, <<11433, 11433>>, <<11435, 11435>>,
            <<11437, 11437>>, <<11439, 11439>>, <<11441, 11441>>,
            <<11443, 11443>>, <<11445, 11445>>, <<11447, 11447>>,
            <<11449, 11449>>, <<11451, 11451>>, <<11453, 11453>>,
            <<11455, 11455>>, <<11457, 11457>>, <<11459, 11459>>,
            <<11461, 11461>>, <<11463, 11463>>, <<11465, 11465>>,
            <<11467, 11467>>, <<11469, 11469>>, <<11471, 11471>>,
            <<11473, 11473>>, <<11475, 11475>>, <<11477, 11477>>,
            <<11479, 11479>>, <<11481, 11481>>, <<11483, 11483>>,
            <<11485, 11485>>, <<11487, 11487>>, <<11489, 11489>>,
            <<11491, 11492>>, <<11500, 11500>>, <<11502, 11502>>,
            <<11507, 11507>>, <<11520, 11557>>, <<11559, 11559>>,
            <<11565, 11565>>, <<42561, 42561>>, <<42563, 42563>>,
            <<42565, 42565>>, <<42567, 42567>>, <<42569, 42569>>,
            <<42571, 42571>>, <<42573, 42573>>, <<42575, 42575>>,
            <<42577, 42577>>, <<42579, 42579>>, <<42581, 42581>>,
            <<42583, 42583>>, <<42585, 42585>>, <<42587, 42587>>,
            <<42589, 42589>>, <<42591, 42591>>, <<42593, 42593>>,
            <<42595, 42595>>, <<42597, 42597>>, <<42599, 42599>>,
            <<42601, 42601>>, <<42603, 42603>>, <<42605, 42605>>,
            <<42625, 42625>>, <<42627, 42627>>, <<42629, 42629>>,
            <<42631, 42631>>, <<42633, 42633>>, <<42635, 42635>>,
            <<42637, 42637>>, <<42639, 42639>>, <<42641, 42641>>,
            <<42643, 42643>>, <<42645, 42645>>, <<42647, 42647>>,
            <<42649, 42649>>, <<42651, 42653>>, <<42787, 42787>>,
            <<42789, 42789>>, <<42791, 42791>>, <<42793, 42793>>,
            <<42795, 42795>>, <<42797, 42797>>, <<42799, 42801>>,
            <<42803, 42803>>, <<42805, 42805>>, <<42807, 42807>>,
            <<42809, 42809>>, <<42811, 42811>>, <<42813, 42813>>,
            <<42815, 42815>>, <<42817, 42817>>, <<42819, 42819>>,
            <<42821, 42821>>, <<42823, 42823>>, <<42825, 42825>>,
            <<42827, 42827>>, <<42829, 42829>>, <<42831, 42831>>,
            <<42833, 42833>>, <<42835, 42835>>, <<42837, 42837>>,
            <<42839, 42839>>, <<42841, 42841>>, <<42843, 42843>>,
            <<42845, 42845>>, <<42847, 42847>>, <<42849, 42849>>,
            <<42851, 42851>>, <<42853, 42853>>, <<42855, 42855>>,
            <<42857, 42857>>, <<42859, 42859>>, <<42861, 42861>>,
            <<42863, 42872>>, <<42874, 42874>>, <<42876, 42876>>,
            <<42879, 42879>>, <<42881, 42881>>, <<42883, 42883>>,
            <<42885, 42885>>, <<42887, 42887>>, <<42892, 42892>>,
            <<42894, 42894>>, <<42897, 42897>>, <<42899, 42901>>,
            <<42903, 42903>>, <<42905, 42905>>, <<42907, 42907>>,
            <<42909, 42909>>, <<42911, 42911>>, <<42913, 42913>>,
            <<42915, 42915>>, <<42917, 42917>>, <<42919, 42919>>,
            <<42921, 42921>>, <<42927, 42927>>, <<42933, 42933>>,
            <<42935, 42935>>, <<42937, 42937>>, <<42939, 42939>>,
            <<42941, 42941>>, <<42943, 42943>>, <<42945, 42945>>,
            <<42947, 42947>>, <<42952, 42952>>, <<42954, 42954>>,
            <<42961, 42961>>, <<42963, 42963>>, <<42965, 42965>>,
            <<42967, 42967>>, <<42969, 42969>>, <<42998, 42998>>,
            <<43000, 43002>>, <<43824, 43866>>, <<43868, 43880>>,
            <<43888, 43967>>, <<64256, 64262>>, <<64275, 64279>>,
            <<65345, 65370>>, <<66600, 66639>>, <<66776, 66811>>,
            <<66967, 66977>>, <<66979, 66993>>, <<66995, 67001>>,
            <<67003, 67004>>, <<67456, 67456>>, <<67459, 67461>>,
            <<67463, 67504>>, <<67506, 67514>>, <<68800, 68850>>,
            <<71872, 71903>>, <<93792, 93823>>, <<119834, 119859>>,
            <<119886, 119892>>, <<119894, 119911>>, <<119938, 119963>>,
            <<119990, 119993>>, <<119995, 119995>>, <<119997, 120003>>,
            <<120005, 120015>>, <<120042, 120067>>, <<120094, 120119>>,
            <<120146, 120171>>, <<120198, 120223>>, <<120250, 120275>>,
            <<120302, 120327>>, <<120354, 120379>>, <<120406, 120431>>,
            <<120458, 120485>>, <<120514, 120538>>, <<120540, 120545>>,
            <<120572, 120596>>, <<120598, 120603>>, <<120630, 120654>>,
            <<120656, 120661>>, <<120688, 120712>>, <<120714, 120719>>,
            <<120746, 120770>>, <<120772, 120777>>, <<120779, 120779>>,
            <<122624, 122633>>, <<122635, 122654>>, <<125218, 125251>>})

\* The titlecase characters (category Lt), which are cased but are neither.
TitleChars ==
    Ranges({<<453, 453>>, <<456, 456>>, <<459, 459>>, <<498, 498>>,
            <<8072, 8079>>, <<8088, 8095>>, <<8104, 8111>>, <<8124, 8124>>,
            <<8140, 8140>>, <<8188, 8188>>})

\* \d in the pattern of line 76, a str pattern: every decimal digit
\* (category Nd), of any script.
DigitChars ==
    Ranges({<<48, 57>>, <<1632, 1641>>, <<1776, 1785>>, <<1984, 1993>>,
            <<2406, 2415>>, <<2534, 2543>>, <<2662, 2671>>, <<2790, 2799>>,
            <<2918, 2927>>, <<3046, 3055>>, <<3174, 3183>>, <<3302, 3311>>,
            <<3430, 3439>>, <<3558, 3567>>, <<3664, 3673>>, <<3792, 3801>>,
            <<3872, 3881>>, <<4160, 4169>>, <<4240, 4249>>, <<6112, 6121>>,
            <<6160, 6169>>, <<6470, 6479>>, <<6608, 6617>>, <<6784, 6793>>,
            <<6800, 6809>>, <<6992, 7001>>, <<7088, 7097>>, <<7232, 7241>>,
            <<7248, 7257>>, <<42528, 42537>>, <<43216, 43225>>,
            <<43264, 43273>>, <<43472, 43481>>, <<43504, 43513>>,
            <<43600, 43609>>, <<44016, 44025>>, <<65296, 65305>>,
            <<66720, 66729>>, <<68912, 68921>>, <<69734, 69743>>,
            <<69872, 69881>>, <<69942, 69951>>, <<70096, 70105>>,
            <<70384, 70393>>, <<70736, 70745>>, <<70864, 70873>>,
            <<71248, 71257>>, <<71360, 71369>>, <<71472, 71481>>,
            <<71904, 71913>>, <<72016, 72025>>, <<72784, 72793>>,
            <<73040, 73049>>, <<73120, 73129>>, <<92768, 92777>>,
            <<92864, 92873>>, <<93008, 93017>>, <<120782, 120831>>,
            <<123200, 123209>>, <<123632, 123641>>, <<125264, 125273>>,
            <<130032, 130041>>})

\* '\n'
NEWLINE == 10

\* 'ε'
EPSILON == <<949>>

\* str.isupper(): no lowercase and no titlecase character, and at least one
\* uppercase character.
isupper(item) ==
    /\ \A n \in 1..Len(item) : item[n] \notin LowerChars \cup TitleChars
    /\ \E n \in 1..Len(item) : item[n] \in UpperChars

\* str.islower(): no uppercase and no titlecase character, and at least one
\* lowercase character.
islower(item) ==
    /\ \A n \in 1..Len(item) : item[n] \notin UpperChars \cup TitleChars
    /\ \E n \in 1..Len(item) : item[n] \in LowerChars

\* The longest run of digits of lhs from position n on ends before DigitsEnd.
RECURSIVE DigitsEnd(_, _)
DigitsEnd(lhs, n) ==
    IF n <= Len(lhs) /\ lhs[n] \in DigitChars THEN DigitsEnd(lhs, n + 1) ELSE n

\* re.match(r'[A-Z]\d*$', lhs): '$' matches at the end of the string and also
\* just before a newline that is the last character.
Matches(lhs) ==
    /\ Len(lhs) >= 1
    /\ lhs[1] \in AsciiUpperChars
    /\ LET e == DigitsEnd(lhs, 2)
       IN  \/ e = Len(lhs) + 1
           \/ e = Len(lhs) /\ lhs[e] = NEWLINE

\* str(n) for n >= 0, as a sequence of characters: the ASCII digits from 48.
DigitChar(d) == 48 + d

RECURSIVE str(_)
str(n) == IF n < 10 THEN <<DigitChar(n)>>
          ELSE Append(str(n \div 10), DigitChar(n % 10))

\* f'U{i}'
UName(n) == <<85>> \o str(n)

\* 'S0'
S0 == <<83, 48>>

-----------------------------------------------------------------------------
(* Python lists and the insertion-ordered dict.                            *)

Contains(list, x) == \E n \in 1..Len(list) : list[n] = x

FirstIndex(list, x) == CHOOSE n \in 1..Len(list) :
                           list[n] = x /\ \A m \in 1..(n - 1) : list[m] # x

\* list.remove(x) when x is in the list: the first equal element goes.
RemoveFirst(list, x) ==
    LET n == FirstIndex(list, x)
    IN  SubSeq(list, 1, n - 1) \o SubSeq(list, n + 1, Len(list))

KeySet(r) == {r[n].key : n \in 1..Len(r)}

Position(r, k) == CHOOSE n \in 1..Len(r) : r[n].key = k

\* rules[k] for a key k
Products(r, k) == r[Position(r, k)].products

\* rules[k] = v: an existing key keeps its place, a new key goes last.
Store(r, k, v) ==
    IF k \in KeySet(r) THEN [r EXCEPT ![Position(r, k)].products = v]
    ELSE Append(r, [key |-> k, products |-> v])

-----------------------------------------------------------------------------
(* ContextFreeGrammar.  A grammar value g is the record of the object's    *)
(* four fields plus raised, the exception (if any) that ended the call.    *)

Grammar(v, t, r, s, e) ==
    [variables |-> v, terminals |-> t, rules |-> r, start_variable |-> s,
     raised |-> e]

\* sort_rules: the start variable's entry first, the others in their order.
\* (rules[start_variable] exists wherever the code calls it here.)
sort_rules(g) ==
    LET s == g.start_variable
        others == SelectSeq(g.rules, LAMBDA entry : entry.key # s)
    IN  [g EXCEPT !.rules =
            <<[key |-> s, products |-> Products(g.rules, s)]>> \o others]

\* add_product: the variable joins the set; the product is appended unless
\* the variable already lists it; a new variable gets a new entry.
add_product(g, variable, product) ==
    LET withVar == [g EXCEPT !.variables = @ \cup {variable}]
    IN  IF variable \in KeySet(g.rules)
        THEN IF Contains(Products(g.rules, variable), product)
             THEN withVar
             ELSE [withVar EXCEPT !.rules =
                      Store(@, variable,
                            Append(Products(g.rules, variable), product))]
        ELSE [withVar EXCEPT !.rules = Store(@, variable, <<product>>)]

\* The inner loop of add_rule over the symbols of one product (lines 80-87).
RECURSIVE ScanItems(_, _, _)
ScanItems(g, rhs_item, n) ==
    IF n > Len(rhs_item) THEN g
    ELSE LET item == rhs_item[n]
             g1 == IF isupper(item) /\ item \notin g.variables
                   THEN [g EXCEPT !.variables = @ \cup {item}]
                   ELSE g
             g2 == IF islower(item) \/ item = EPSILON
                   THEN [g1 EXCEPT !.terminals = @ \cup {item}]
                   ELSE g1
         IN  ScanItems(g2, rhs_item, n + 1)

\* The outer loop of add_rule over the products of rhs (lines 79-90).
RECURSIVE AddProducts(_, _, _, _)
AddProducts(g, lhs, rhs, n) ==
    IF n > Len(rhs) THEN g
    ELSE AddProducts(add_product(ScanItems(g, rhs[n], 1), lhs, rhs[n]),
                     lhs, rhs, n + 1)

\* add_rule: InvalidRule before anything is touched, else the two loops.
\* A call made after an exception has already left the function does nothing.
add_rule(g, lhs, rhs) ==
    IF g.raised # "none" THEN g
    ELSE IF ~Matches(lhs) THEN [g EXCEPT !.raised = "InvalidRule"]
    ELSE AddProducts(g, lhs, rhs, 1)

-----------------------------------------------------------------------------
(* main.py: generate_combinations and replace_products.                    *)

RECURSIVE Pow2(_)
Pow2(n) == IF n = 0 THEN 1 ELSE 2 * Pow2(n - 1)

\* How many of the positions before p hold the variable: the place of
\* position p in the list indices (line 19).
Rank(item, variable, p) ==
    Cardinality({q \in 1..(p - 1) : item[q] = variable})

\* The c-th tuple of itertools.product([0, 1], repeat=n), counted from 0, has
\* at place k (from 0) the k-th binary digit of c, most significant first.
Include(c, n, k) == (c \div Pow2(n - 1 - k)) % 2 = 1

\* Lines 26-33: the item without the occurrences the combination drops.
Kept(item, variable, c) ==
    LET n == Cardinality({q \in 1..Len(item) : item[q] = variable})
        keep(q) == item[q] # variable \/ Include(c, n, Rank(item, variable, q))
        left == SelectSeq([q \in 1..Len(item) |-> q], keep)
    IN  [q \in 1..Len(left) |-> item[left[q]]]

generate_combinations(item, variable) ==
    LET n == Cardinality({q \in 1..Len(item) : item[q] = variable})
    IN  [c \in 1..Pow2(n) |->
            LET result == Kept(item, variable, c - 1)
            IN  IF result = <<>> THEN <<EPSILON>> ELSE result]

RECURSIVE AddEach(_, _, _, _)
AddEach(g, variable, products, n) ==
    IF n > Len(products) THEN g
    ELSE AddEach(add_product(g, variable, products[n]), variable, products,
                 n + 1)

\* replace_products: the list is cleared, then refilled through add_product,
\* which drops the repeated products.
replace_products(g, variable, products) ==
    AddEach([g EXCEPT !.rules = Store(@, variable, <<>>)], variable, products,
            1)

-----------------------------------------------------------------------------
(* main.py: change_start_variable.                                         *)

\* Line 69, for some product of some variable.
StartIsAProduct(g) ==
    \E n \in 1..Len(g.rules) : Contains(g.rules[n].products,
                                        <<g.start_variable>>)

change_start_variable(g) ==
    IF StartIsAProduct(g)
    THEN LET added == add_rule(g, S0, <<<<g.start_variable>>>>)
         IN  sort_rules([added EXCEPT !.start_variable = S0])
    ELSE g

-----------------------------------------------------------------------------
(* main.py: remove_epsilon_rules.                                          *)

\* Line 89.
InitialNullable(g) ==
    {g.rules[n].key : n \in {m \in 1..Len(g.rules) :
                                Contains(g.rules[m].products, <<EPSILON>>)}}

\* Lines 97-103 for the products pros, from the n-th on.
RECURSIVE NewPros(_, _, _)
NewPros(pros, variable, n) ==
    IF n > Len(pros) THEN <<>>
    ELSE (IF Contains(pros[n], variable)
          THEN generate_combinations(pros[n], variable)
          ELSE <<pros[n]>>) \o NewPros(pros, variable, n + 1)

\* Line 109 without its test of visited.
EnqueueVisitedToo(g, var, seen) ==
    Contains(Products(g.rules, var), <<EPSILON>>)

\* Line 109: whether var joins the worklist.
Enqueue(g, var, seen) ==
    Contains(Products(g.rules, var), <<EPSILON>>) /\ var \notin seen

\* Lines 96-110: the for loop over the rule dict, from its n-th entry on.
\* st is [g, nullable]; seen is visited.
RECURSIVE RewriteFrom(_, _, _, _)
RewriteFrom(st, seen, variable, n) ==
    IF n > Len(st.g.rules) THEN st
    ELSE LET var == st.g.rules[n].key
             pros == st.g.rules[n].products
             g1 == replace_products(st.g, var, NewPros(pros, variable, 1))
             nul == IF Enqueue(g1, var, seen) THEN st.nullable \cup {var}
                    ELSE st.nullable
         IN  RewriteFrom([g |-> g1, nullable |-> nul], seen, variable, n + 1)

-----------------------------------------------------------------------------
(* main.py: remove_unit_rules.                                             *)

\* Lines 120-121 for one variable's products, from the n-th on.
RECURSIVE PairsOf(_, _, _, _)
PairsOf(g, variable, products, n) ==
    IF n > Len(products) THEN <<>>
    ELSE (IF Len(products[n]) = 1 /\ products[n][1] \in g.variables
          THEN << <<variable, products[n]>> >>
          ELSE <<>>) \o PairsOf(g, variable, products, n + 1)

RECURSIVE PairsFrom(_, _)
PairsFrom(g, n) ==
    IF n > Len(g.rules) THEN <<>>
    ELSE PairsOf(g, g.rules[n].key, g.rules[n].products, 1)
         \o PairsFrom(g, n + 1)

\* Line 129: some product of the target is, with the variable, one of the
\* pairs before the n-th.
AddedBefore(g, pairs, n, variable, target) ==
    \E m \in 1..Len(Products(g.rules, target)) :
        Contains(SubSeq(pairs, 1, n - 1),
                 <<variable, Products(g.rules, target)[m]>>)

\* Lines 124-130 for the n-th pair.
UnitPair(g, pairs, n) ==
    LET variable == pairs[n][1]
        product == pairs[n][2]
        target == product[1]
    IN  IF target = variable THEN g
        ELSE IF ~Contains(Products(g.rules, variable), product)
        THEN [g EXCEPT !.raised = "ValueError"]
        ELSE LET g1 == [g EXCEPT !.rules =
                           Store(@, variable,
                                 RemoveFirst(Products(g.rules, variable),
                                             product))]
             IN  IF target \notin KeySet(g1.rules)
                 THEN [g1 EXCEPT !.raised = "KeyError"]
                 ELSE IF AddedBefore(g1, pairs, n, variable, target) THEN g1
                 ELSE add_rule(g1, variable, Products(g1.rules, target))

-----------------------------------------------------------------------------
(* main.py: convert_to_proper_form.  st is [g, i].                         *)

\* The for loops of lines 155-156, 179-180, 194-195: the keys whose whole
\* product list equals new_product; the loop stops at the first.
Holders(g, new_product) ==
    SelectSeq(g.rules, LAMBDA entry : entry.products = new_product)

\* rules[variable][j] = product
SetProduct(g, variable, j, product) ==
    [g EXCEPT !.rules =
        Store(@, variable, [Products(g.rules, variable) EXCEPT ![j] = product])]

\* Lines 150-162 for one product of length >= 3.
Shorten(st, variable, product) ==
    LET g1 == [st.g EXCEPT !.rules =
                  Store(@, variable,
                        RemoveFirst(Products(st.g.rules, variable), product))]
        new_variable == UName(st.i)
        new_product == <<SubSeq(product, 2, Len(product))>>
        found == Holders(g1, new_product)
    IN  IF found # <<>>
        THEN [g |-> add_rule(g1, variable, <<<<product[1], found[1].key>>>>),
              i |-> st.i]
        ELSE [g |-> add_rule(add_rule(g1, new_variable, new_product),
                             variable, <<<<product[1], new_variable>>>>),
              i |-> st.i + 1]

\* Lines 148-162: the for loop over the live list rules[variable], whose
\* iterator is at position p.
RECURSIVE ShortenFrom(_, _, _)
ShortenFrom(st, variable, p) ==
    IF st.g.raised # "none" \/ p > Len(Products(st.g.rules, variable)) THEN st
    ELSE LET product == Products(st.g.rules, variable)[p]
         IN  ShortenFrom(IF Len(product) >= 3
                         THEN Shorten(st, variable, product) ELSE st,
                         variable, p + 1)

\* Lines 175-186 and 190-201: the terminal at place k (1 or 2) of the j-th
\* product moves into a variable of its own; other is the symbol that stays.
Isolate(st, variable, j, k, other) ==
    LET terminal == Products(st.g.rules, variable)[j][k]
        new_variable == UName(st.i)
        new_product == << <<terminal>> >>
        found == Holders(st.g, new_product)
        holder == IF found # <<>> THEN found[1].key ELSE new_variable
        g1 == IF found # <<>> THEN st.g
              ELSE add_rule(st.g, new_variable, new_product)
    IN  [g |-> SetProduct(g1, variable, j,
                          IF k = 1 THEN <<holder, other>>
                          ELSE <<other, holder>>),
         i |-> IF found # <<>> THEN st.i ELSE st.i + 1]

\* Lines 174-201 for the j-th product.
IsolateProduct(st, variable, j) ==
    LET product == Products(st.g.rules, variable)[j]
        st1 == IF product[1] \in st.g.terminals
               THEN Isolate(st, variable, j, 1, product[2]) ELSE st
        again == Products(st1.g.rules, variable)[j]
    IN  IF again[2] \in st1.g.terminals
        THEN Isolate(st1, variable, j, 2, again[1]) ELSE st1

\* Lines 173-201: the for loop over the live list rules[variable].
RECURSIVE IsolateFrom(_, _, _)
IsolateFrom(st, variable, j) ==
    IF j > Len(Products(st.g.rules, variable)) THEN st
    ELSE IsolateFrom(IF Len(Products(st.g.rules, variable)[j]) >= 2
                     THEN IsolateProduct(st, variable, j) ELSE st,
                     variable, j + 1)

-----------------------------------------------------------------------------
(* The program as a state machine.                                         *)

Current == Grammar(variables, terminals, rules, start_variable, raised)

\* The fields of the grammar object become those of g; an exception ends the
\* run, otherwise control moves to next.
Becomes(g, next) ==
    /\ variables' = g.variables
    /\ terminals' = g.terminals
    /\ rules' = g.rules
    /\ start_variable' = g.start_variable
    /\ raised' = g.raised
    /\ pc' = IF g.raised = "none" THEN next ELSE "raised"

\* main, line 216.
ChangeStartVariable ==
    /\ pc = "change_start_variable"
    /\ Becomes(change_start_variable(Current), "remove_epsilon_rules")
    /\ UNCHANGED <<nullable, visited, unit_pairs, pair, i, index, call, given>>

\* main, line 217; remove_epsilon_rules, lines 88-89.
RemoveEpsilonEnter ==
    /\ pc = "remove_epsilon_rules"
    /\ nullable' = InitialNullable(Current)
    /\ visited' = {}
    /\ pc' = "nullable_loop"
    /\ UNCHANGED <<variables, terminals, rules, start_variable, raised,
                   unit_pairs, pair, i, index, call, given>>

\* One turn of the while loop, lines 91-110.  set.pop() returns an arbitrary
\* element.
RemoveEpsilonPop ==
    /\ pc = "nullable_loop"
    /\ \E variable \in nullable :
          LET g1 == [Current EXCEPT !.rules =
                        Store(@, variable,
                              RemoveFirst(Products(rules, variable),
                                          <<EPSILON>>))]
              seen == visited \cup {variable}
              st == RewriteFrom([g |-> g1,
                                 nullable |-> nullable \ {variable}],
                                seen, variable, 1)
          IN  /\ visited' = seen
              /\ nullable' = st.nullable
              /\ Becomes(st.g, "nullable_loop")
    /\ UNCHANGED <<unit_pairs, pair, i, index, call, given>>

\* The while loop ends, line 91; main, line 218.
RemoveEpsilonReturn ==
    /\ pc = "nullable_loop"
    /\ nullable = {}
    /\ pc' = "remove_unit_rules"
    /\ UNCHANGED <<variables, terminals, rules, start_variable, raised,
                   nullable, visited, unit_pairs, pair, i, index, call, given>>

\* remove_unit_rules, lines 120-121.
RemoveUnitEnter ==
    /\ pc = "remove_unit_rules"
    /\ unit_pairs' = PairsFrom(Current, 1)
    /\ pair' = 1
    /\ pc' = "unit_loop"
    /\ UNCHANGED <<variables, terminals, rules, start_variable, raised,
                   nullable, visited, i, index, call, given>>

\* One turn of the for loop, lines 123-130.
RemoveUnitPair ==
    /\ pc = "unit_loop"
    /\ pair <= Len(unit_pairs)
    /\ Becomes(UnitPair(Current, unit_pairs, pair), "unit_loop")
    /\ pair' = pair + 1
    /\ UNCHANGED <<nullable, visited, unit_pairs, i, index, call, given>>

\* The for loop ends; main, line 219.
RemoveUnitReturn ==
    /\ pc = "unit_loop"
    /\ pair > Len(unit_pairs)
    /\ pc' = "convert_to_proper_form"
    /\ UNCHANGED <<variables, terminals, rules, start_variable, raised,
                   nullable, visited, unit_pairs, pair, i, index, call, given>>

\* convert_to_proper_form, lines 140-141.
ConvertEnter ==
    /\ pc = "convert_to_proper_form"
    /\ i' = 1
    /\ index' = 0
    /\ pc' = "shorten_loop"
    /\ UNCHANGED <<variables, terminals, rules, start_variable, raised,
                   nullable, visited, unit_pairs, pair, call, given>>

\* One turn of the first while loop, lines 144-164.
ShortenVariable ==
    /\ pc = "shorten_loop"
    /\ index < Len(rules)
    /\ LET st == ShortenFrom([g |-> Current, i |-> i], rules[index + 1].key, 1)
       IN  /\ Becomes(st.g, "shorten_loop")
           /\ i' = st.i
    /\ index' = index + 1
    /\ UNCHANGED <<nullable, visited, unit_pairs, pair, call, given>>

\* The first while loop ends; line 166.
ShortenEnd ==
    /\ pc = "shorten_loop"
    /\ index >= Len(rules)
    /\ index' = 0
    /\ pc' = "isolate_loop"
    /\ UNCHANGED <<variables, terminals, rules, start_variable, raised,
                   nullable, visited, unit_pairs, pair, i, call, given>>

\* One turn of the second while loop, lines 169-203.
IsolateVariable ==
    /\ pc = "isolate_loop"
    /\ index < Len(rules)
    /\ LET st == IsolateFrom([g |-> Current, i |-> i], rules[index + 1].key, 1)
       IN  /\ Becomes(st.g, "isolate_loop")
           /\ i' = st.i
    /\ index' = index + 1
    /\ UNCHANGED <<nullable, visited, unit_pairs, pair, call, given>>

\* The second while loop ends; main returns, line 220.
ConvertReturn ==
    /\ pc = "isolate_loop"
    /\ index >= Len(rules)
    /\ pc' = "done"
    /\ UNCHANGED <<variables, terminals, rules, start_variable, raised,
                   nullable, visited, unit_pairs, pair, i, index, call, given>>

\* A direct call grammar.add_rule(lhs, rhs) by a user of the class.
AddRule ==
    /\ pc = "add_rule"
    /\ Becomes(add_rule(Current, call.lhs, call.rhs), "returned")
    /\ UNCHANGED <<nullable, visited, unit_pairs, pair, i, index, call, given>>

-----------------------------------------------------------------------------
(* The grammars the runs start from.                                       *)

\* The most products an input grammar lists, over all its variables.
MaxProducts == 3

\* The same for the grammars remove_unit_rules is run on by itself.
MaxUnitProducts == 4

\* The most products of the grammar add_rule is called on, and of its rhs.
MaxRuleProducts == 2

\* 'S', 'A', 'B', 'C' and 'a', 'b', 'c'
S == <<83>>
A == <<65>>
B == <<66>>
C == <<67>>
a == <<97>>
b == <<98>>
c == <<99>>

\* The lists of n distinct elements of the set.
RECURSIVE Arrangements(_, _)
Arrangements(set, n) ==
    IF n = 0 THEN {<<>>}
    ELSE UNION {{Append(list, x) :
                    x \in set \ {list[m] : m \in 1..Len(list)}} :
                list \in Arrangements(set, n - 1)}

\* The constructor, lines 25-31.
Construct(vs, ts, rs, start) ==
    sort_rules(Grammar(vs, ts, rs, start, "none"))

Begins(g, at, args) ==
    /\ variables = g.variables
    /\ terminals = g.terminals
    /\ rules = g.rules
    /\ start_variable = g.start_variable
    /\ raised = "none"
    /\ pc = at
    /\ nullable = {}
    /\ visited = {}
    /\ unit_pairs = <<>>
    /\ pair = 1
    /\ i = 1
    /\ index = 0
    /\ call = args
    /\ given = [rules |-> g.rules, start_variable |-> g.start_variable]

NoCall == [lhs |-> <<>>, rhs |-> <<>>]

\* The names the second variable of an input grammar may have: a plain one
\* and the two the pipeline itself uses.
SecondNames == {A, S0, UName(1)}

\* The products the variables S and X of an input grammar are built from.
Pool(X) == {<<EPSILON>>, <<a>>, <<S>>, <<X>>, <<X, X>>, <<X, b>>,
            <<a, S, b>>, <<a, b, a>>}

\* main on a grammar with the variables S (the start variable) and X, every
\* variable a key, every symbol declared, no product listed twice.
Init ==
    \E X \in SecondNames, n1 \in 0..MaxProducts, n2 \in 0..MaxProducts :
        /\ n1 + n2 <= MaxProducts
        /\ \E p1 \in Arrangements(Pool(X), n1),
              p2 \in Arrangements(Pool(X), n2),
              keys \in {<<S, X>>, <<X, S>>} :
              Begins(Construct({S, X}, {a, b},
                               [n \in 1..2 |->
                                   [key |-> keys[n],
                                    products |-> IF keys[n] = S THEN p1
                                                 ELSE p2]],
                               S),
                     "change_start_variable", NoCall)

Next ==
    \/ ChangeStartVariable
    \/ RemoveEpsilonEnter
    \/ RemoveEpsilonPop
    \/ RemoveEpsilonReturn
    \/ RemoveUnitEnter
    \/ RemoveUnitPair
    \/ RemoveUnitReturn
    \/ ConvertEnter
    \/ ShortenVariable
    \/ ShortenEnd
    \/ IsolateVariable
    \/ ConvertReturn

Spec == Init /\ [][Next]_vars

\* remove_unit_rules by itself, on a grammar with the variables A, B, C.
UnitPool == {<<A>>, <<B>>, <<C>>, <<a>>, <<b>>}

InitUnit ==
    \E n1 \in 0..MaxUnitProducts, n2 \in 0..MaxUnitProducts,
       n3 \in 0..MaxUnitProducts :
        /\ n1 + n2 + n3 <= MaxUnitProducts
        /\ \E p1 \in Arrangements(UnitPool, n1),
              p2 \in Arrangements(UnitPool, n2),
              p3 \in Arrangements(UnitPool, n3) :
              Begins(Construct({A, B, C}, {a, b},
                               <<[key |-> A, products |-> p1],
                                 [key |-> B, products |-> p2],
                                 [key |-> C, products |-> p3]>>,
                               A),
                     "remove_unit_rules", NoCall)

NextUnit == RemoveUnitEnter \/ RemoveUnitPair \/ RemoveUnitReturn

SpecUnit == InitUnit /\ [][NextUnit]_vars

\* add_rule by itself.
\* '', 's', 'S', 'A', 'A1', 'AB', '1', 'Aa', 'A' and 'A1' with newlines after
\* them, a newline alone, 'S0', 'U1'; then names with characters beyond ASCII:
\* 'A' + ARABIC-INDIC DIGIT THREE (1635), 'A' + FULLWIDTH DIGIT ONE (65297),
\* the two together, the first with a newline, LATIN CAPITAL LETTER E WITH
\* ACUTE (201) alone and before '1', GREEK CAPITAL LETTER SIGMA (931), and
\* 'A' + SUPERSCRIPT TWO (178), which is a digit to str.isdigit but not to \d.
LhsSamples == {<<>>, <<115>>, S, A, <<65, 49>>, <<65, 66>>, <<49>>,
               <<65, 97>>, <<65, NEWLINE>>, <<65, 49, NEWLINE>>,
               <<65, NEWLINE, NEWLINE>>, <<NEWLINE>>, S0, UName(1),
               <<65, 1635>>, <<65, 65297>>, <<65, 1635, 65297>>,
               <<65, 1635, NEWLINE>>, <<201>>, <<201, 49>>, <<931>>,
               <<65, 178>>}

\* The products of the calls: 'a', 'S', 'B c', 'ε', and two with symbols beyond
\* ASCII: 'É é' (201, 233) and 'ǅ Aß ٣' (453 is titlecase, 223 is lowercase).
RulePool == {<<a>>, <<S>>, <<B, c>>, <<EPSILON>>, <<<<201>>, <<233>>>>,
             <<<<453>>, <<65, 223>>, <<1635>>>>}

InitRule ==
    \E n1 \in 0..MaxRuleProducts, n2 \in 0..MaxRuleProducts :
        \E p1 \in Arrangements(RulePool, n1),
           rhs \in Arrangements(RulePool, n2),
           lhs \in LhsSamples :
            Begins(Construct({S}, {a}, <<[key |-> S, products |-> p1]>>, S),
                   "add_rule", [lhs |-> lhs, rhs |-> rhs])

NextRule == AddRule

SpecRule == InitRule /\ [][NextRule]_vars

-----------------------------------------------------------------------------
(* Properties.                                                             *)

\* The (variable, product) pairs a rule dict holds.
Listed(r) ==
    UNION {{<<r[n].key, r[n].products[m]>> : m \in 1..Len(r[n].products)} :
              n \in 1..Len(r)}

ProductSet(r, k) == {r[Position(r, k)].products[m] :
                        m \in 1..Len(r[Position(r, k)].products)}

\* The variables of the rule dict r that derive the empty string: the least
\* set holding every variable with a product made of ε and nullable variables.
RECURSIVE NullableFrom(_, _)
NullableFrom(r, known) ==
    LET more == {k \in KeySet(r) :
                    \E p \in ProductSet(r, k) :
                        \A n \in 1..Len(p) : p[n] = EPSILON \/ p[n] \in known}
    IN  IF more \subseteq known THEN known ELSE NullableFrom(r, known \cup more)

DerivesEmpty(r, k) == k \in NullableFrom(r, {})

\* A unit production of the rule dict r: one symbol, and that a key of r.
IsUnit(r, p) == Len(p) = 1 /\ p[1] \in KeySet(r)

NonUnit(r, k) == {p \in ProductSet(r, k) : ~IsUnit(r, p)}

\* The variables a chain of one or more unit productions leads to from k.
RECURSIVE UnitReachFrom(_, _)
UnitReachFrom(r, reached) ==
    LET more == {p[1] : p \in UNION {{q \in ProductSet(r, k) : IsUnit(r, q)} :
                                        k \in reached}}
    IN  IF more \subseteq reached THEN reached
        ELSE UnitReachFrom(r, reached \cup more)

UnitReach(r, k) ==
    UnitReachFrom(r, {p[1] : p \in {q \in ProductSet(r, k) : IsUnit(r, q)}})

\* C1: in the grammar main returns, every production is one terminal or two
\* variables, except the production [ε] of the start variable.
C1_ShapeOfResult ==
    pc = "done" =>
        \A vp \in Listed(rules) :
            LET p == vp[2]
            IN  \/ Len(p) = 1 /\ p[1] \in terminals \ {EPSILON}
                \/ Len(p) = 2 /\ p[1] \in variables /\ p[2] \in variables
                \/ p = <<EPSILON>> /\ vp[1] = start_variable

\* C2: when the start variable of the input grammar derives the empty string,
\* the start variable of the returned grammar has the production [ε].
C2_EmptyStringKept ==
    (pc = "done" /\ DerivesEmpty(given.rules, given.start_variable)) =>
        <<start_variable, <<EPSILON>>>> \in Listed(rules)

\* C3: after remove_unit_rules, each variable's productions are its non-unit
\* productions of before the call together with those of every variable its
\* unit productions led to.  (A self-loop A -> A, which the code skips on
\* purpose, is not counted on either side.)
C3_UnitClosure ==
    pc = "convert_to_proper_form" =>
        \A k \in KeySet(given.rules) :
            ProductSet(rules, k) \ {<<k>>} =
                (NonUnit(given.rules, k) \cup
                 UNION {NonUnit(given.rules, t) : t \in UnitReach(given.rules, k)})

\* C4: after remove_unit_rules, no variable has a production that is a single
\* other variable.
C4_UnitFree ==
    pc = "convert_to_proper_form" =>
        \A vp \in Listed(rules) :
            ~(Len(vp[2]) = 1 /\ vp[2][1] \in variables /\ vp[2][1] # vp[1])

\* C5: after remove_epsilon_rules, no variable but the start variable has the
\* production [ε].
C5_EpsilonFree ==
    pc = "remove_unit_rules" =>
        \A vp \in Listed(rules) :
            vp[2] = <<EPSILON>> => vp[1] = start_variable

\* C6: after change_start_variable, and in the grammar main returns, the start
\* variable occurs in no production.
C6_StartIsolated ==
    pc \in {"remove_epsilon_rules", "done"} =>
        \A vp \in Listed(rules) : ~Contains(vp[2], start_variable)

\* One uppercase letter followed by zero or more digits, in the widest sense:
\* a character str.isupper() calls uppercase, then decimal digits of any script.
WellFormedName(lhs) ==
    /\ Len(lhs) >= 1
    /\ lhs[1] \in UpperChars
    /\ \A n \in 2..Len(lhs) : lhs[n] \in DigitChars

\* C7: add_rule with an lhs that is not an uppercase letter followed by digits
\* raises InvalidRule and leaves the grammar as it was.
C7_InvalidLhsRejected ==
    [][(pc = "add_rule" /\ ~WellFormedName(call.lhs)) =>
          /\ pc' = "raised"
          /\ raised' = "InvalidRule"
          /\ UNCHANGED <<variables, terminals, rules, start_variable>>]_vars

\* C8: when the first loop of convert_to_proper_form has ended, no production
\* has three or more symbols.
C8_ShortAfterFirstPass ==
    (pc = "isolate_loop" /\ index = 0) =>
        \A vp \in Listed(rules) : Len(vp[2]) < 3

\* How far main is from its return: the statements still ahead ...
Stage ==
    CASE pc = "change_start_variable" -> 8
      [] pc = "remove_epsilon_rules" -> 7
      [] pc = "nullable_loop" -> 6
      [] pc = "remove_unit_rules" -> 5
      [] pc = "unit_loop" -> 4
      [] pc = "convert_to_proper_form" -> 3
      [] pc = "shorten_loop" -> 2
      [] pc = "isolate_loop" -> 1
      [] OTHER -> 0

RECURSIVE Sum(_, _)
Sum(f, set) ==
    IF set = {} THEN 0
    ELSE LET x == CHOOSE y \in set : TRUE IN f[x] + Sum(f, set \ {x})

\* The symbols the products of r have beyond two each.
Excess(r) ==
    LET w == [n \in 1..Len(r) |->
                 Sum([m \in 1..Len(r[n].products) |->
                         IF Len(r[n].products[m]) > 2
                         THEN Len(r[n].products[m]) - 2 ELSE 0],
                     1..Len(r[n].products))]
    IN  Sum(w, 1..Len(r))

\* The terminals inside the products of r that have two or more symbols.
TerminalPlaces(r) ==
    LET w == [n \in 1..Len(r) |->
                 Sum([m \in 1..Len(r[n].products) |->
                         IF Len(r[n].products[m]) >= 2
                         THEN Cardinality({k \in 1..Len(r[n].products[m]) :
                                  r[n].products[m][k] \in terminals})
                         ELSE 0],
                     1..Len(r[n].products))]
    IN  Sum(w, 1..Len(r))

\* ... and the turns the loop main is in still has: the variables not yet
\* visited; the unit pairs left; the entries of the rule dict left, plus those
\* the long products (the terminals to move) can still add.
Turns ==
    CASE pc = "nullable_loop" -> Cardinality(KeySet(rules) \ visited)
      [] pc = "unit_loop" -> Len(unit_pairs) + 1 - pair
      [] pc = "shorten_loop" -> Excess(rules) + Len(rules) - index
      [] pc = "isolate_loop" -> TerminalPlaces(rules) + Len(rules) - index
      [] OTHER -> 0

\* C9: main terminates: no exception leaves it, and every step brings it
\* nearer to its return, either to a later statement or, within a loop, to
\* fewer turns left (a natural number), so no loop runs for ever.  (Each loop
\* position has a step for either outcome of its test, so main never stops
\* short of its return.)
C9_Terminates ==
    /\ [](pc # "raised" /\ Turns \in Nat)
    /\ [][\/ Stage' < Stage
          \/ Stage' = Stage /\ Turns' < Turns]_vars

\* A unit cycle S -> X, X -> S in the rule dict r.
HasUnitCycle(r) ==
    \E k \in KeySet(r) : \E t \in UnitReach(r, k) \ {k} : k \in UnitReach(r, t)

\* C9 happens: main has returned on a grammar with a unit cycle, after the
\* loops of convert_to_proper_form added variables to the rule dict they run
\* over.
C9_Returned ==
    /\ pc = "done"
    /\ HasUnitCycle(given.rules)
    /\ i > 1
    /\ UName(1) \in KeySet(rules) \ KeySet(given.rules)

\* C10: a variable the pipeline mints (the new start variable, each U name)
\* was neither in variables nor a key of rules before it was introduced.
C10_MintedNamesFresh ==
    [][/\ start_variable' # start_variable =>
              start_variable' \notin variables \cup KeySet(rules)
       /\ pc \in {"shorten_loop", "isolate_loop"} =>
              \A n \in i..(i' - 1) :
                  UName(n) \notin variables \cup KeySet(rules)]_vars

====
